---- MODULE Spec2Model ----
(***************************************************************************)
(* Commit clustering of commitkit-desktop.                                 *)
(*                                                                         *)
(*   Spec    groupCommitsMultiSignal (src/src/integrations/jira.ts): the   *)
(*           tiers PR, epic, sprint+time and file overlap, one step each.  *)
(*   SpecAI  OllamaProvider.analyzeCommitsForGrouping                      *)
(*           (src/src/services/ollama.ts): the confidence filter applied   *)
(*           to the text the model returns.                                *)
(*                                                                         *)
(* Confidences are in hundredths (0.85 is 85).  A key that a JSON document *)
(* lacks is a field the record lacks, so that reading it gives JavaScript's*)
(* undefined: every comparison with it is false.                           *)
(***************************************************************************)
EXTENDS Integers, Sequences, FiniteSets, TLC

VARIABLES
    commits,        \* the commit list handed to the operation
    jiraCache,      \* ticket id -> JiraIssue
    prCache,        \* commit hash -> GitHubPR
    options,        \* { timeWindowDays?, overlapThreshold? }
    remaining,      \* commits not consumed by the PR tier
    allGroups,      \* groups collected so far, tier after tier
    afterEpic,      \* { commit, issues } left by the epic tier
    afterSprint,    \* { commit, issues } left by the sprint tier
    sensitivity,    \* ClusteringSensitivity of the AI pass
    pc,             \* position inside the running operation
    calls,          \* number of generateText calls made so far
    response,       \* what generateText gave back
    parsed,         \* JSON.parse(jsonStr)
    gi,             \* position of the for-loop over parsed.groups
    filteredGroups, \* groups kept so far
    allUngrouped,   \* hashes pushed to ungrouped so far (with repeats)
    result,         \* the value returned to the caller
    filesA,         \* calculateFileOverlap: first argument
    filesB,         \* calculateFileOverlap: second argument
    jaccard,        \* calculateFileOverlap: the value returned
    message,        \* extractJiraKeys: the argument, as a list of words
    groupOverrides  \* groupCommitsByFeature: the third argument

pipeVars == <<jiraCache, prCache, options, remaining, allGroups, afterEpic, afterSprint>>
aiVars == <<sensitivity, calls, response, parsed, gi, filteredGroups, allUngrouped>>
fnVars == <<filesA, filesB, jaccard, message, groupOverrides>>
vars == <<commits, pc, result, pipeVars, aiVars, fnVars>>

(***************************************************************************)
(* Bounds and input domains                                                *)
(***************************************************************************)
MaxAICommits == 2
MaxGroups == 2
MaxEntries == 3

HashPool == <<"h1", "h2", "h3", "h4", "h5", "h6">>

None == [kind |-> "none"]

Sensitivities == {"strict", "balanced", "loose"}

\* sequences over S of length lo..hi
SeqsOf(S, lo, hi) == UNION {[1..n -> S] : n \in lo..hi}

AICommitLists == {[i \in 1..n |-> [hash |-> HashPool[i]]] : n \in 0..MaxAICommits}

\* ordinals the model may write: 0 and MaxAICommits+1 are outside every batch
IndexValues == 0..(MaxAICommits + 1)
\* one value on each side of every perCommit threshold
ConfidenceValues == {60, 80, 90}
\* one value on each side of every perGroup threshold
OverallValues == {50, 70, 85}

Entries == [index : IndexValues, confidence : ConfidenceValues]

GroupsOf(E, maxLen, O) ==
    {[name |-> "g", commits |-> cs, overall_confidence |-> o] :
        cs \in SeqsOf(E, 0, maxLen), o \in O}

\* the model names its groups; the k-th group of a document is named GroupNames[k]
GroupNames == <<"g1", "g2", "g3", "g4">>
Named(gs) == [k \in DOMAIN gs |-> [gs[k] EXCEPT !.name = GroupNames[k]]]

UngroupedLists == SeqsOf({0, 1, 2}, 0, 1)

\* documents that carry every required key: one group in full detail
OneGroupDocs ==
    {[groups |-> Named(gs), ungrouped |-> u] :
        gs \in SeqsOf(GroupsOf(Entries, MaxEntries, OverallValues), 0, 1),
        u \in UngroupedLists}

\* several groups, whose entries take the extreme confidences only
CoarseEntries == [index : 1..MaxAICommits, confidence : {60, 90}]
ManyGroupDocs ==
    {[groups |-> Named(gs), ungrouped |-> u] :
        gs \in SeqsOf(GroupsOf(CoarseEntries, 2, {50, 85}), 2, MaxGroups),
        u \in UngroupedLists}

\* a JSON object without one of its keys
Without(r, k) == [x \in DOMAIN r \ {k} |-> r[x]]

\* documents that lack one required key, at the top level, in a group or in an
\* entry of a group
DamagedDocs ==
    UNION {
        {Without(d, "groups"), Without(d, "ungrouped")}
        \cup {[d EXCEPT !.groups[g] = Without(@, k)] :
                g \in 1..Len(d.groups), k \in {"commits", "overall_confidence"}}
        \cup UNION {{[d EXCEPT !.groups[g].commits[e] = Without(@, k)] :
                        e \in 1..Len(d.groups[g].commits), k \in {"index", "confidence"}} :
                    g \in 1..Len(d.groups)}
        : d \in {x \in OneGroupDocs : \A g \in DOMAIN x.groups : Len(x.groups[g].commits) <= 2}}

Docs == OneGroupDocs \cup ManyGroupDocs \cup DamagedDocs

\* what the text-generation client can give back: an error, text that is not
\* JSON, or a JSON document (bare or inside a code fence)
Responses ==
    {[kind |-> "error"], [kind |-> "text"]} \cup {[kind |-> "json", doc |-> d] : d \in Docs}

(***************************************************************************)
(* analyzeCommitsForGrouping, src/src/services/ollama.ts                   *)
(***************************************************************************)
Has(r, k) == k \in DOMAIN r

\* JavaScript x >= t and x < t where x may be undefined
GeJS(r, k, t) == Has(r, k) /\ r[k] >= t
LtJS(r, k, t) == Has(r, k) /\ r[k] < t

\* variant: the rows of strict and loose exchanged
getConfidenceThresholds_Swapped(s) ==
    CASE s = "strict" -> [perCommit |-> 60, perGroup |-> 50]
      [] s = "balanced" -> [perCommit |-> 80, perGroup |-> 70]
      [] s = "loose" -> [perCommit |-> 90, perGroup |-> 85]

getConfidenceThresholds(s) ==
    CASE s = "strict" -> [perCommit |-> 90, perGroup |-> 85]
      [] s = "balanced" -> [perCommit |-> 80, perGroup |-> 70]
      [] s = "loose" -> [perCommit |-> 60, perGroup |-> 50]

Range(s) == {s[i] : i \in DOMAIN s}

\* variant: repeated elements are kept
Dedupe_Keep(s) == s

\* [...new Set(s)]: the first occurrence of every element, in order
RECURSIVE Dedupe(_)
Dedupe(s) ==
    IF s = <<>> THEN <<>>
    ELSE LET front == Dedupe(SubSeq(s, 1, Len(s) - 1))
             last == s[Len(s)]
         IN  IF last \in Range(front) THEN front ELSE Append(front, last)

AllHashes(cs) == [i \in DOMAIN cs |-> cs[i].hash]

\* c.index >= 1 && c.index <= commits.length
ValidIndex(c, cs) == GeJS(c, "index", 1) /\ c.index <= Len(cs)
\* variant: ordinal k is translated to the commit after the k-th, cyclically
HashesOf_Shifted(entries, cs) ==
    LET valid == SelectSeq(entries, LAMBDA c : ValidIndex(c, cs))
    IN  [i \in DOMAIN valid |-> cs[(valid[i].index % Len(cs)) + 1].hash]

\* commits[c.index - 1].hash for every entry with a valid index
HashesOf(entries, cs) ==
    LET valid == SelectSeq(entries, LAMBDA c : ValidIndex(c, cs))
    IN  [i \in DOMAIN valid |-> cs[valid[i].index].hash]

\* (parsed.ungrouped || []).filter(idx => idx >= 1 && idx <= n).map(idx => hash)
InitialUngrouped(doc, cs) ==
    LET listed == IF Has(doc, "ungrouped") THEN doc.ungrouped ELSE <<>>
        valid == SelectSeq(listed, LAMBDA idx : idx >= 1 /\ idx <= Len(cs))
    IN  [i \in DOMAIN valid |-> cs[valid[i]].hash]

\* variant: an entry whose confidence equals perCommit is not confident
confidentCommits_Strict(group, th) ==
    SelectSeq(group.commits, LAMBDA c : Has(c, "confidence") /\ c.confidence > th.perCommit)

confidentCommits(group, th) ==
    SelectSeq(group.commits, LAMBDA c : GeJS(c, "confidence", th.perCommit))
lowConfidenceCommits(group, th) ==
    SelectSeq(group.commits, LAMBDA c : LtJS(c, "confidence", th.perCommit))

\* the group meets the per-group threshold and has enough confident entries
GroupPasses(group, th) ==
    /\ GeJS(group, "overall_confidence", th.perGroup)
    /\ Len(confidentCommits(group, th)) >= 2

\* the group is pushed to filteredGroups
GroupKept(group, th, cs) ==
    /\ GroupPasses(group, th)
    /\ Len(HashesOf(confidentCommits(group, th), cs)) >= 2

KeptGroup(group, th, cs) ==
    [name |-> group.name,
     commitHashes |-> HashesOf(confidentCommits(group, th), cs),
     confidence |-> group.overall_confidence]

\* what one iteration of the loop over parsed.groups pushes to allUngrouped:
\* the low-confidence entries, then the confident ones of a group that is not kept
EvictedBy(group, th, cs) ==
    LET commitHashes == HashesOf(confidentCommits(group, th), cs)
    IN  HashesOf(lowConfidenceCommits(group, th), cs)
        \o (IF GroupPasses(group, th)
            THEN (IF Len(commitHashes) >= 2 THEN <<>> ELSE commitHashes)
            ELSE commitHashes)

\* filteredGroups once the loop over parsed.groups has ended
ClusterGroups(doc, cs, s) ==
    LET th == getConfidenceThresholds(s)
        kept == SelectSeq(doc.groups, LAMBDA g : GroupKept(g, th, cs))
    IN  [k \in DOMAIN kept |-> KeptGroup(kept[k], th, cs)]

\* the console.log lines read parsed.groups.length and g.commits.length
LoggingThrows(doc) ==
    IF ~Has(doc, "groups") THEN TRUE
    ELSE \E g \in 1..Len(doc.groups) : ~Has(doc.groups[g], "commits")

\* variant: the fallback returns nothing at all
Fallback_Empty(cs) == [groups |-> <<>>, ungrouped |-> <<>>]

Fallback(cs) == [groups |-> <<>>, ungrouped |-> AllHashes(cs)]

InitAI ==
    /\ commits \in AICommitLists
    /\ sensitivity \in Sensitivities
    /\ pc = "start"
    /\ calls = 0
    /\ response = None
    /\ parsed = None
    /\ gi = 0
    /\ filteredGroups = <<>>
    /\ allUngrouped = <<>>
    /\ result = None
    /\ jiraCache = None /\ prCache = None /\ options = None
    /\ remaining = None /\ allGroups = None /\ afterEpic = None /\ afterSprint = None
    /\ filesA = None /\ filesB = None /\ jaccard = None
    /\ message = None /\ groupOverrides = None

\* if (commits.length < 2) return { groups: [], ungrouped: all hashes }
SkipTooFew ==
    /\ pc = "start"
    /\ Len(commits) < 2
    /\ result' = Fallback(commits)
    /\ pc' = "done"
    /\ UNCHANGED <<commits, sensitivity, calls, response, parsed, gi,
                   filteredGroups, allUngrouped>>
    /\ UNCHANGED <<pipeVars, fnVars>>

\* variant: the client is called whatever the number of commits
GenerateText_Always ==
    /\ pc = "start"
    /\ \E r \in Responses :
        /\ response' = r
        /\ pc' = IF r.kind = "error" THEN "catch" ELSE "parse"
    /\ calls' = calls + 1
    /\ UNCHANGED <<commits, sensitivity, parsed, gi, filteredGroups,
                   allUngrouped, result>>
    /\ UNCHANGED <<pipeVars, fnVars>>

\* const response = await this.generateText(prompt), which may reject
GenerateText ==
    /\ pc = "start"
    /\ Len(commits) >= 2
    /\ \E r \in Responses :
        /\ response' = r
        /\ pc' = IF r.kind = "error" THEN "catch" ELSE "parse"
    /\ calls' = calls + 1
    /\ UNCHANGED <<commits, sensitivity, parsed, gi, filteredGroups,
                   allUngrouped, result>>
    /\ UNCHANGED <<pipeVars, fnVars>>

\* JSON.parse(jsonStr.trim()) throws a SyntaxError
ParseFails ==
    /\ pc = "parse"
    /\ response.kind = "text"
    /\ pc' = "catch"
    /\ UNCHANGED <<commits, sensitivity, calls, response, parsed, gi,
                   filteredGroups, allUngrouped, result>>
    /\ UNCHANGED <<pipeVars, fnVars>>

\* the document parses but the logging lines throw a TypeError
LoggingFails ==
    /\ pc = "parse"
    /\ response.kind = "json"
    /\ LoggingThrows(response.doc)
    /\ parsed' = response.doc
    /\ pc' = "catch"
    /\ UNCHANGED <<commits, sensitivity, calls, response, gi,
                   filteredGroups, allUngrouped, result>>
    /\ UNCHANGED <<pipeVars, fnVars>>

\* the document parses: thresholds, filteredGroups = [], allUngrouped from
\* parsed.ungrouped
BeginFilter ==
    /\ pc = "parse"
    /\ response.kind = "json"
    /\ ~LoggingThrows(response.doc)
    /\ parsed' = response.doc
    /\ filteredGroups' = <<>>
    /\ allUngrouped' = InitialUngrouped(response.doc, commits)
    /\ gi' = 1
    /\ pc' = "filter"
    /\ UNCHANGED <<commits, sensitivity, calls, response, result>>
    /\ UNCHANGED <<pipeVars, fnVars>>

\* one iteration of for (const group of parsed.groups)
FilterGroup ==
    /\ pc = "filter"
    /\ gi <= Len(parsed.groups)
    /\ LET group == parsed.groups[gi]
           th == getConfidenceThresholds(sensitivity)
       IN  /\ filteredGroups' =
                IF GroupKept(group, th, commits)
                THEN Append(filteredGroups, KeptGroup(group, th, commits))
                ELSE filteredGroups
           /\ allUngrouped' = allUngrouped \o EvictedBy(group, th, commits)
    /\ gi' = gi + 1
    /\ UNCHANGED <<commits, sensitivity, pc, calls, response, parsed, result>>
    /\ UNCHANGED <<pipeVars, fnVars>>

\* return { groups: filteredGroups, ungrouped: [...new Set(allUngrouped)] }
ReturnClustering ==
    /\ pc = "filter"
    /\ gi > Len(parsed.groups)
    /\ result' = [groups |-> filteredGroups, ungrouped |-> Dedupe(allUngrouped)]
    /\ pc' = "done"
    /\ UNCHANGED <<commits, sensitivity, calls, response, parsed, gi,
                   filteredGroups, allUngrouped>>
    /\ UNCHANGED <<pipeVars, fnVars>>

\* variant: a failed call of the client is made once more before the fallback
CatchFallback_Retry ==
    /\ pc = "catch"
    /\ IF response.kind = "error" /\ calls < 2
       THEN pc' = "start" /\ result' = result
       ELSE pc' = "done" /\ result' = Fallback(commits)
    /\ UNCHANGED <<commits, sensitivity, calls, response, parsed, gi,
                   filteredGroups, allUngrouped>>
    /\ UNCHANGED <<pipeVars, fnVars>>

\* catch (error): return { groups: [], ungrouped: all hashes }
CatchFallback ==
    /\ pc = "catch"
    /\ result' = Fallback(commits)
    /\ pc' = "done"
    /\ UNCHANGED <<commits, sensitivity, calls, response, parsed, gi,
                   filteredGroups, allUngrouped>>
    /\ UNCHANGED <<pipeVars, fnVars>>

NextAI ==
    \/ SkipTooFew
    \/ GenerateText
    \/ ParseFails
    \/ LoggingFails
    \/ BeginFilter
    \/ FilterGroup
    \/ ReturnClustering
    \/ CatchFallback

SpecAI == InitAI /\ [][NextAI]_vars

(***************************************************************************)
(* Claims about analyzeCommitsForGrouping                                  *)
(***************************************************************************)
\* the thresholds as the specification tabulates them
TablePerCommit(s) == IF s = "strict" THEN 90 ELSE IF s = "balanced" THEN 80 ELSE 60
TablePerGroup(s) == IF s = "strict" THEN 85 ELSE IF s = "balanced" THEN 70 ELSE 50

\* the pass went through the filter and returned
Filtered == pc = "done" /\ gi > 0

InputHashes == {commits[i].hash : i \in DOMAIN commits}
InBatch(e) == Has(e, "index") /\ e.index \in 1..Len(commits)
HashAt(e) == commits[e.index].hash
AtLeast(e, k, t) == Has(e, k) /\ e[k] >= t
Below(e, k, t) == Has(e, k) /\ e[k] < t

\* positions of the returned groups that come from the proposed group g
ReturnedFrom(g) == {k \in DOMAIN result.groups : result.groups[k].name = g.name}
IsReturned(g) == ReturnedFrom(g) # {}
GroupedHashes == UNION {Range(result.groups[k].commitHashes) : k \in DOMAIN result.groups}
UngroupedHashes == Range(result.ungrouped)

\* every required key of the expected document is there
WellFormed(doc) ==
    /\ Has(doc, "groups") /\ Has(doc, "ungrouped")
    /\ \A g \in DOMAIN doc.groups :
        /\ Has(doc.groups[g], "commits") /\ Has(doc.groups[g], "overall_confidence")
        /\ \A e \in DOMAIN doc.groups[g].commits :
            Has(doc.groups[g].commits[e], "index") /\ Has(doc.groups[g].commits[e], "confidence")

C5_AsStated ==
    pc = "done" =>
        /\ GroupedHashes \cap UngroupedHashes = {}
        /\ \A j, k \in DOMAIN result.groups :
            j # k => Range(result.groups[j].commitHashes)
                        \cap Range(result.groups[k].commitHashes) = {}

\* the hashes kept in returned groups when the same document is filtered under s
RetainedUnder(s) ==
    LET gs == ClusterGroups(parsed, commits, s)
    IN  UNION {Range(gs[k].commitHashes) : k \in DOMAIN gs}

\* C6: for the document and commit list of the pass, the hashes kept in groups
\* under strict are among those kept under balanced, which are among those kept
\* under loose; the pass returns the ones of its own sensitivity.
C6_SensitivityMonotone ==
    Filtered =>
        /\ RetainedUnder("strict") \subseteq RetainedUnder("balanced")
        /\ RetainedUnder("balanced") \subseteq RetainedUnder("loose")
        /\ GroupedHashes = RetainedUnder(sensitivity)

\* a balanced pass keeps commits that a strict pass of the same document evicts
C6_Witness ==
    /\ Filtered
    /\ sensitivity = "balanced"
    /\ GroupedHashes # {}
    /\ RetainedUnder("strict") = {}
    /\ RetainedUnder("loose") = GroupedHashes

\* C7: when the response is not JSON the pass returns no groups and an
\* ungrouped list that holds the hash of every input commit, once each.
C7_MalformedAllUngrouped ==
    (response.kind = "text" /\ pc = "done") =>
        /\ result.groups = <<>>
        /\ Len(result.ungrouped) = Len(commits)
        /\ \A i \in DOMAIN commits : result.ungrouped[i] = commits[i].hash

C7_Witness ==
    /\ response.kind = "text"
    /\ pc = "done"
    /\ Len(commits) >= 2

\* C8 as stated: a JSON document that lacks a required key gives the whole
\* batch back as ungrouped, with no groups.
C8_AsStated ==
    (pc = "done" /\ response.kind = "json" /\ ~WellFormed(response.doc)) =>
        /\ result.groups = <<>>
        /\ UngroupedHashes = InputHashes

\* C9 as stated: every commit that a proposed group names with an in-range
\* ordinal and that is in no returned group is in the returned ungrouped list.
C9_AsStated ==
    Filtered =>
        \A i \in DOMAIN parsed.groups :
            \A e \in DOMAIN parsed.groups[i].commits :
                LET c == parsed.groups[i].commits[e]
                IN  (InBatch(c) /\ HashAt(c) \notin GroupedHashes)
                        => HashAt(c) \in UngroupedHashes

\* what does hold: an entry that carries a confidence and an in-range ordinal,
\* and whose commit is in no returned group, has its commit in ungrouped
EvictedReappear ==
    Filtered =>
        \A i \in DOMAIN parsed.groups :
            \A e \in DOMAIN parsed.groups[i].commits :
                LET c == parsed.groups[i].commits[e]
                IN  (InBatch(c) /\ Has(c, "confidence") /\ HashAt(c) \notin GroupedHashes)
                        => HashAt(c) \in UngroupedHashes

\* C10 as stated: every returned group holds at least two different hashes.
C10_AsStated ==
    pc = "done" =>
        \A k \in DOMAIN result.groups :
            Cardinality(Range(result.groups[k].commitHashes)) >= 2

\* C12: with fewer than 2 commits the text-generation client is never called,
\* and the pass returns no groups and the hash of every supplied commit, in
\* order, as ungrouped.
C12_SkipTooFew ==
    Len(commits) < 2 =>
        /\ calls = 0
        /\ pc = "done" =>
            /\ result.groups = <<>>
            /\ result.ungrouped = [i \in DOMAIN commits |-> commits[i].hash]

\* a pass over a single commit has returned
C12_Witness ==
    /\ pc = "done"
    /\ Len(commits) = 1
    /\ result.ungrouped = <<"h1">>

\* the ordinals of the model's own ungrouped list
ListedUngrouped == IF Has(parsed, "ungrouped") THEN Range(parsed.ungrouped) ELSE {}

\* C13: every hash returned, in a group or in ungrouped, is the hash of an
\* input commit; a hash of a returned group is the hash of the k-th input
\* commit for an ordinal k that the proposed group names; every in-range
\* ordinal k of the model's ungrouped list puts the hash of the k-th input
\* commit in ungrouped; a document whose groups all carry commits goes
\* through the filter, whatever its ordinals.
C13_OrdinalTranslation ==
    pc = "done" =>
        /\ GroupedHashes \cup UngroupedHashes \subseteq InputHashes
        /\ Filtered =>
            /\ \A i \in DOMAIN parsed.groups :
                \A k \in ReturnedFrom(parsed.groups[i]) :
                    \A h \in Range(result.groups[k].commitHashes) :
                        \E e \in DOMAIN parsed.groups[i].commits :
                            /\ InBatch(parsed.groups[i].commits[e])
                            /\ HashAt(parsed.groups[i].commits[e]) = h
            /\ \A k \in ListedUngrouped :
                k \in 1..Len(commits) => commits[k].hash \in UngroupedHashes
        /\ ( /\ response.kind = "json"
             /\ Has(response.doc, "groups")
             /\ \A g \in DOMAIN response.doc.groups : Has(response.doc.groups[g], "commits") )
           => Filtered

\* a group is returned although the model named an ordinal outside the batch
\* in it and another in its ungrouped list
C13_Witness ==
    /\ Filtered
    /\ result.groups # <<>>
    /\ \E i \in DOMAIN parsed.groups :
        /\ IsReturned(parsed.groups[i])
        /\ \E e \in DOMAIN parsed.groups[i].commits :
            /\ Has(parsed.groups[i].commits[e], "index")
            /\ ~InBatch(parsed.groups[i].commits[e])
    /\ \E k \in ListedUngrouped : k \notin 1..Len(commits)

\* C20: the returned ungrouped list holds no hash twice.
C20_UngroupedDeduplicated ==
    pc = "done" =>
        \A i, j \in DOMAIN result.ungrouped :
            i # j => result.ungrouped[i] # result.ungrouped[j]

\* a commit that the model listed as ungrouped was also evicted from a group
C20_Witness ==
    /\ Filtered
    /\ \E k \in ListedUngrouped :
        /\ k \in 1..Len(commits)
        /\ \E i, j \in DOMAIN allUngrouped :
            i # j /\ allUngrouped[i] = commits[k].hash /\ allUngrouped[j] = commits[k].hash

\* C29: the client is called at most once in an invocation; after a call
\* that failed there is no further call and no parsing, only the catch
\* block, and the invocation returns no groups and every input hash, in
\* order, as ungrouped.
C29_SingleCall ==
    /\ calls \in {0, 1}
    /\ (calls = 1) <=> (response.kind # "none")
    /\ response.kind = "error" => pc \in {"catch", "done"}
    /\ (pc = "done" /\ response.kind = "error") =>
            result = [groups |-> <<>>,
                      ungrouped |-> [i \in DOMAIN commits |-> commits[i].hash]]

\* an invocation over 2 commits or more that ended after its call failed
C29_Witness ==
    /\ pc = "done"
    /\ response.kind = "error"
    /\ calls = 1
    /\ Len(commits) >= 2

\* C30: after a pass over 2 commits or more whose model output parsed,
\* every input hash is in a returned group or in the ungrouped list.
C30_AsStated ==
    (pc = "done" /\ Len(commits) >= 2 /\ response.kind = "json") =>
        \A i \in DOMAIN commits : commits[i].hash \in GroupedHashes \cup UngroupedHashes

\* the same for the commits whose ordinal the document names in its
\* ungrouped list, or in a group entry that carries a confidence
NamedOnesReturned ==
    Filtered =>
        \A i \in DOMAIN commits :
            (\/ i \in ListedUngrouped
             \/ \E g \in DOMAIN parsed.groups : \E e \in DOMAIN parsed.groups[g].commits :
                    /\ Has(parsed.groups[g].commits[e], "index")
                    /\ parsed.groups[g].commits[e].index = i
                    /\ Has(parsed.groups[g].commits[e], "confidence"))
                => commits[i].hash \in GroupedHashes \cup UngroupedHashes

(***************************************************************************)
(* Tiered grouping, src/src/integrations/jira.ts                           *)
(*                                                                         *)
(* A commit message is the sequence of its matches of JIRA_KEY_REGEX, as   *)
(* written; a path is the sequence of its segments; a timestamp is         *)
(* getTime() in milliseconds; overlapThreshold is in hundredths.           *)
(***************************************************************************)
MaxCommits == 3

DayMs == 86400000

\* match.toUpperCase()
ToUpperCase(m) ==
    CASE m = "t1" -> "T1"
      [] m = "t2" -> "T2"
      [] m = "t3" -> "T3"
      [] OTHER -> m

\* the words of a message that JIRA_KEY_REGEX matches (flags gi)
MatchesKeyRegex(w) == w \in {"T1", "t1", "T2", "t2", "T3", "t3"}

\* message.match(JIRA_KEY_REGEX): the matches in order, <<>> for null
Match(m) == SelectSeq(m, MatchesKeyRegex)

\* variant: the repeats are removed before the matches are uppercased
extractJiraKeys_DedupeFirst(m) ==
    LET matches == Dedupe(Match(m))
    IN  [i \in DOMAIN matches |-> ToUpperCase(matches[i])]

\* [...new Set(matches.map(m => m.toUpperCase()))]
extractJiraKeys(m) ==
    LET matches == Match(m)
    IN  IF matches = <<>> THEN <<>>
        ELSE Dedupe([i \in DOMAIN matches |-> ToUpperCase(matches[i])])

\* JiraPlugin.extractTicketKeys, on the regex of the instance
extractTicketKeys(m) ==
    LET matches == Match(m)
        unique == Dedupe([i \in DOMAIN matches |-> ToUpperCase(matches[i])])
    IN  IF matches = <<>> THEN <<>> ELSE unique

\* JavaScript truthiness of an optional string field
Truthy(r, k) == Has(r, k) /\ r[k] # ""

\* a record with one more field when present
WithField(r, k, present, v) ==
    IF present THEN [x \in DOMAIN r \cup {k} |-> IF x = k THEN v ELSE r[x]] ELSE r

RECURSIVE Flatten(_)
Flatten(ss) == IF ss = <<>> THEN <<>> ELSE Head(ss) \o Flatten(Tail(ss))

\* variant: a sort that puts a group before the earlier groups of its size
RECURSIVE SortByCommitCount_TiesReversed(_)
SortByCommitCount_TiesReversed(gs) ==
    IF gs = <<>> THEN <<>>
    ELSE LET front == SortByCommitCount_TiesReversed(SubSeq(gs, 1, Len(gs) - 1))
             g == gs[Len(gs)]
             before == SelectSeq(front, LAMBDA x : Len(x.commits) > Len(g.commits))
             after == SelectSeq(front, LAMBDA x : Len(x.commits) <= Len(g.commits))
         IN  before \o <<g>> \o after

\* groups.sort((a, b) => b.commits.length - a.commits.length), a stable sort
RECURSIVE SortByCommitCount(_)
SortByCommitCount(gs) ==
    IF gs = <<>> THEN <<>>
    ELSE LET front == SortByCommitCount(SubSeq(gs, 1, Len(gs) - 1))
             g == gs[Len(gs)]
             before == SelectSeq(front, LAMBDA x : Len(x.commits) >= Len(g.commits))
             after == SelectSeq(front, LAMBDA x : Len(x.commits) < Len(g.commits))
         IN  before \o <<g>> \o after

\* ---- groupByPR ----
PRGroup(pr, prCommits) ==
    [groupKey |-> "PR-" \o ToString(pr.number),
     groupType |-> "pr",
     groupName |-> pr.title,
     commits |-> prCommits,
     jiraIssues |-> <<>>,
     labels |-> IF Has(pr, "labels") THEN pr.labels ELSE <<>>,
     prNumber |-> pr.number]

\* variant: the buckets of a single commit are not handed on
groupByPR_DropSingles(cs, prs) ==
    LET withPR == SelectSeq(cs, LAMBDA c : c.hash \in DOMAIN prs)
        numbers == Dedupe([i \in DOMAIN withPR |-> prs[withPR[i].hash].number])
        bucket(n) == SelectSeq(withPR, LAMBDA c : prs[c.hash].number = n)
        large == SelectSeq(numbers, LAMBDA n : Len(bucket(n)) >= 2)
        groups == [k \in DOMAIN large |->
                     PRGroup(prs[bucket(large[k])[1].hash], bucket(large[k]))]
    IN  [groups |-> SortByCommitCount(groups),
         ungrouped |-> SelectSeq(cs, LAMBDA c : c.hash \notin DOMAIN prs)]

groupByPR(cs, prs) ==
    LET withPR == SelectSeq(cs, LAMBDA c : c.hash \in DOMAIN prs)
        \* keys of the Map prGroups, in insertion order
        numbers == Dedupe([i \in DOMAIN withPR |-> prs[withPR[i].hash].number])
        bucket(n) == SelectSeq(withPR, LAMBDA c : prs[c.hash].number = n)
        large == SelectSeq(numbers, LAMBDA n : Len(bucket(n)) >= 2)
        single == SelectSeq(numbers, LAMBDA n : Len(bucket(n)) < 2)
        groups == [k \in DOMAIN large |->
                     PRGroup(prs[bucket(large[k])[1].hash], bucket(large[k]))]
        noPR == SelectSeq(cs, LAMBDA c : c.hash \notin DOMAIN prs)
    IN  [groups |-> SortByCommitCount(groups),
         ungrouped |-> noPR \o Flatten([k \in DOMAIN single |-> bucket(single[k])])]

\* ---- groupCommitsByFeature ----
\* the issues of the cache that the matches of the message name, in match order
CommitIssues(commit, cache) ==
    LET keys == [i \in DOMAIN commit.message |-> ToUpperCase(commit.message[i])]
        found == SelectSeq(keys, LAMBDA k : k \in DOMAIN cache)
    IN  [i \in DOMAIN found |-> cache[found[i]]]

EpicNameOf(issue) == IF Truthy(issue, "epicName") THEN issue.epicName ELSE issue.epicKey

\* issue.labels || [] of every issue, in order
LabelsOf(issues) ==
    Flatten([i \in DOMAIN issues |->
                IF Has(issues[i], "labels") THEN issues[i].labels ELSE <<>>])

\* push every issue whose key the list does not hold yet
RECURSIVE AddUniqueIssues(_, _)
AddUniqueIssues(list, issues) ==
    IF issues = <<>> THEN list
    ELSE AddUniqueIssues(
            IF \E i \in DOMAIN list : list[i].key = Head(issues).key
            THEN list ELSE Append(list, Head(issues)),
            Tail(issues))

\* epicInfo.get(key)?.epicName || key, epicInfo filled by the first pass
OverrideName(key, cs, cache) ==
    LET all == Flatten([i \in DOMAIN cs |-> CommitIssues(cs[i], cache)])
        same == SelectSeq(all, LAMBDA issue : Truthy(issue, "epicKey") /\ issue.epicKey = key)
    IN  IF same = <<>> \/ EpicNameOf(same[1]) = "" THEN key ELSE EpicNameOf(same[1])

\* variant: the epic is that of the last ticket that carries one
FeatureStep_LastEpic(acc, commit, cs, cache, overrides) ==
    LET commitIssues == CommitIssues(commit, cache)
        withEpic == SelectSeq(commitIssues, LAMBDA issue : Truthy(issue, "epicKey"))
        overridden == commit.hash \in DOMAIN overrides
        toNoGroup == overridden /\ ~Has(overrides[commit.hash], "key")
        epicKey == IF overridden /\ ~toNoGroup THEN overrides[commit.hash].key
                   ELSE IF withEpic # <<>> THEN withEpic[Len(withEpic)].epicKey ELSE ""
        epicName == IF overridden /\ ~toNoGroup THEN OverrideName(epicKey, cs, cache)
                    ELSE IF withEpic # <<>> THEN EpicNameOf(withEpic[Len(withEpic)]) ELSE ""
        at == {k \in DOMAIN acc.groups : acc.groups[k].groupKey = epicKey}
    IN  IF toNoGroup \/ epicKey = ""
        THEN [acc EXCEPT !.ungroupedCommits =
                Append(@, [commit |-> commit, issues |-> commitIssues])]
        ELSE IF at # {}
        THEN LET k == CHOOSE x \in at : TRUE
             IN  [acc EXCEPT
                    !.groups[k].commits = Append(@, commit),
                    !.groups[k].jiraIssues = AddUniqueIssues(@, commitIssues),
                    !.groups[k].labels = Dedupe(@ \o LabelsOf(commitIssues))]
        ELSE [acc EXCEPT !.groups = Append(@,
                WithField(
                    [groupKey |-> epicKey,
                     groupType |-> "epic",
                     groupName |-> epicName,
                     commits |-> <<commit>>,
                     jiraIssues |-> commitIssues,
                     labels |-> Dedupe(LabelsOf(commitIssues))],
                    "sprint",
                    commitIssues # <<>> /\ Has(commitIssues[1], "sprint"),
                    IF commitIssues # <<>> /\ Has(commitIssues[1], "sprint")
                    THEN commitIssues[1].sprint ELSE ""))]

\* one iteration of the second loop over the commits
FeatureStep(acc, commit, cs, cache, overrides) ==
    LET commitIssues == CommitIssues(commit, cache)
        withEpic == SelectSeq(commitIssues, LAMBDA issue : Truthy(issue, "epicKey"))
        overridden == commit.hash \in DOMAIN overrides
        toNoGroup == overridden /\ ~Has(overrides[commit.hash], "key")
        epicKey == IF overridden /\ ~toNoGroup THEN overrides[commit.hash].key
                   ELSE IF withEpic # <<>> THEN withEpic[1].epicKey ELSE ""
        epicName == IF overridden /\ ~toNoGroup THEN OverrideName(epicKey, cs, cache)
                    ELSE IF withEpic # <<>> THEN EpicNameOf(withEpic[1]) ELSE ""
        at == {k \in DOMAIN acc.groups : acc.groups[k].groupKey = epicKey}
    IN  IF toNoGroup \/ epicKey = ""
        THEN [acc EXCEPT !.ungroupedCommits =
                Append(@, [commit |-> commit, issues |-> commitIssues])]
        ELSE IF at # {}
        THEN LET k == CHOOSE x \in at : TRUE
             IN  [acc EXCEPT
                    !.groups[k].commits = Append(@, commit),
                    !.groups[k].jiraIssues = AddUniqueIssues(@, commitIssues),
                    !.groups[k].labels = Dedupe(@ \o LabelsOf(commitIssues))]
        ELSE [acc EXCEPT !.groups = Append(@,
                WithField(
                    [groupKey |-> epicKey,
                     groupType |-> "epic",
                     groupName |-> epicName,
                     commits |-> <<commit>>,
                     jiraIssues |-> commitIssues,
                     labels |-> Dedupe(LabelsOf(commitIssues))],
                    "sprint",
                    commitIssues # <<>> /\ Has(commitIssues[1], "sprint"),
                    IF commitIssues # <<>> /\ Has(commitIssues[1], "sprint")
                    THEN commitIssues[1].sprint ELSE ""))]

RECURSIVE FeatureLoop(_, _, _, _, _)
FeatureLoop(acc, todo, cs, cache, overrides) ==
    IF todo = <<>> THEN acc
    ELSE FeatureLoop(FeatureStep(acc, Head(todo), cs, cache, overrides),
                     Tail(todo), cs, cache, overrides)

NoOverrides == <<>>

groupCommitsByFeature(cs, cache, overrides) ==
    LET end == FeatureLoop([groups |-> <<>>, ungroupedCommits |-> <<>>],
                           cs, cs, cache, overrides)
    IN  [groups |-> SortByCommitCount(end.groups),
         ungroupedCommits |-> end.ungroupedCommits]

\* ---- groupBySprintAndTime ----
\* item.issues[0]?.sprint, "" when there is none
SprintOf(item) ==
    IF item.issues # <<>> /\ Truthy(item.issues[1], "sprint")
    THEN item.issues[1].sprint ELSE ""

\* [...sprintCommits].sort((a, b) => a.commit.timestamp - b.commit.timestamp), stable
RECURSIVE SortByTimestamp(_)
SortByTimestamp(items) ==
    IF items = <<>> THEN <<>>
    ELSE LET front == SortByTimestamp(SubSeq(items, 1, Len(items) - 1))
             it == items[Len(items)]
             before == SelectSeq(front, LAMBDA x : x.commit.timestamp <= it.commit.timestamp)
             after == SelectSeq(front, LAMBDA x : x.commit.timestamp > it.commit.timestamp)
         IN  before \o <<it>> \o after

\* variant: a gap equal to the window starts a new cluster
RECURSIVE TimeClusters_Strict(_, _)
TimeClusters_Strict(sorted, timeWindowMs) ==
    IF Len(sorted) <= 1 THEN <<sorted>>
    ELSE LET front == TimeClusters_Strict(SubSeq(sorted, 1, Len(sorted) - 1), timeWindowMs)
             prevTime == sorted[Len(sorted) - 1].commit.timestamp
             currTime == sorted[Len(sorted)].commit.timestamp
         IN  IF currTime - prevTime < timeWindowMs
             THEN [front EXCEPT ![Len(front)] = Append(@, sorted[Len(sorted)])]
             ELSE Append(front, <<sorted[Len(sorted)]>>)

\* the runs of a sorted bucket: a commit joins the current cluster when it is
\* at most timeWindowMs after the previous one
RECURSIVE TimeClusters(_, _)
TimeClusters(sorted, timeWindowMs) ==
    IF Len(sorted) <= 1 THEN <<sorted>>
    ELSE LET front == TimeClusters(SubSeq(sorted, 1, Len(sorted) - 1), timeWindowMs)
             prevTime == sorted[Len(sorted) - 1].commit.timestamp
             currTime == sorted[Len(sorted)].commit.timestamp
         IN  IF currTime - prevTime <= timeWindowMs
             THEN [front EXCEPT ![Len(front)] = Append(@, sorted[Len(sorted)])]
             ELSE Append(front, <<sorted[Len(sorted)]>>)

SprintGroup(sprint, cluster) ==
    LET issues == Flatten([i \in DOMAIN cluster |-> cluster[i].issues])
    IN  [groupKey |-> "sprint-" \o sprint,
         groupType |-> "sprint",
         groupName |-> "Sprint: " \o sprint,
         commits |-> [i \in DOMAIN cluster |-> cluster[i].commit],
         jiraIssues |-> AddUniqueIssues(<<>>, issues),
         sprint |-> sprint,
         labels |-> Dedupe(LabelsOf(issues))]

\* variant: every time cluster of a bucket becomes a group, whatever its size
SprintBucketStep_KeepSingles(acc, sprint, sprintCommits, timeWindowMs) ==
    IF Len(sprintCommits) < 2
    THEN [acc EXCEPT !.ungrouped = @ \o sprintCommits]
    ELSE LET clusters == TimeClusters(SortByTimestamp(sprintCommits), timeWindowMs)
         IN  [groups |-> acc.groups \o
                    [k \in DOMAIN clusters |-> SprintGroup(sprint, clusters[k])],
              ungrouped |-> acc.ungrouped]

\* one iteration of the loop over sprintBuckets
SprintBucketStep(acc, sprint, sprintCommits, timeWindowMs) ==
    IF Len(sprintCommits) < 2
    THEN [acc EXCEPT !.ungrouped = @ \o sprintCommits]
    ELSE LET clusters == TimeClusters(SortByTimestamp(sprintCommits), timeWindowMs)
             large == SelectSeq(clusters, LAMBDA c : Len(c) >= 2)
             small == SelectSeq(clusters, LAMBDA c : Len(c) < 2)
         IN  [groups |-> acc.groups \o [k \in DOMAIN large |-> SprintGroup(sprint, large[k])],
              ungrouped |-> acc.ungrouped \o Flatten(small)]

RECURSIVE SprintLoop(_, _, _, _)
SprintLoop(acc, sprints, items, timeWindowMs) ==
    IF sprints = <<>> THEN acc
    ELSE SprintLoop(
            SprintBucketStep(acc, Head(sprints),
                SelectSeq(items, LAMBDA it : SprintOf(it) = Head(sprints)), timeWindowMs),
            Tail(sprints), items, timeWindowMs)

groupBySprintAndTime(items, timeWindowDays) ==
    LET withSprint == SelectSeq(items, LAMBDA it : SprintOf(it) # "")
        \* keys of the Map sprintBuckets, in insertion order
        sprints == Dedupe([i \in DOMAIN withSprint |-> SprintOf(withSprint[i])])
        noSprint == SelectSeq(items, LAMBDA it : SprintOf(it) = "")
        end == SprintLoop([groups |-> <<>>, ungrouped |-> noSprint], sprints, items,
                          timeWindowDays * 24 * 60 * 60 * 1000)
    IN  [groups |-> SortByCommitCount(end.groups), ungrouped |-> end.ungrouped]

\* ---- calculateFileOverlap, groupByFileOverlap ----
\* variant: the union is sized by the lengths of the lists, repeats included
calculateFileOverlap_Lengths(files1, files2) ==
    IF Len(files1) = 0 \/ Len(files2) = 0 THEN [num |-> 0, den |-> 1]
    ELSE LET set1 == Range(files1)
             set2 == Range(files2)
             intersection == Cardinality({f \in set1 : f \in set2})
             union == Len(files1) + Len(files2) - intersection
         IN  IF union > 0 THEN [num |-> intersection, den |-> union]
             ELSE [num |-> 0, den |-> 1]

\* the Jaccard similarity as a fraction num/den
calculateFileOverlap(files1, files2) ==
    IF Len(files1) = 0 \/ Len(files2) = 0 THEN [num |-> 0, den |-> 1]
    ELSE LET set1 == Range(files1)
             set2 == Range(files2)
             intersection == Cardinality({f \in set1 : f \in set2})
             union == Cardinality(set1) + Cardinality(set2) - intersection
         IN  IF union > 0 THEN [num |-> intersection, den |-> union]
             ELSE [num |-> 0, den |-> 1]

\* overlap >= overlapThreshold, the threshold in hundredths
OverlapReaches(overlap, threshold) == overlap.num * 100 >= threshold * overlap.den

\* commits[i].filesChanged || []
FilesOf(commit) == IF Has(commit, "filesChanged") THEN commit.filesChanged ELSE <<>>

\* variant: only the later commits are entered in the adjacency list of a commit
Neighbours_Later(cs, i, threshold) ==
    SelectSeq([j \in 1..Len(cs) |-> j], LAMBDA j :
        /\ j > i
        /\ OverlapReaches(calculateFileOverlap(FilesOf(cs[i]), FilesOf(cs[j])), threshold))

\* overlaps.get(i): the j # i with enough overlap, ascending
Neighbours(cs, i, threshold) ==
    SelectSeq([j \in 1..Len(cs) |-> j], LAMBDA j :
        /\ j # i
        /\ OverlapReaches(calculateFileOverlap(FilesOf(cs[i]), FilesOf(cs[j])), threshold))

\* the while loop over the queue: the cluster and the visited set it ends with
RECURSIVE Traverse(_, _, _, _, _)
Traverse(queue, visited, cluster, cs, threshold) ==
    IF queue = <<>> THEN [cluster |-> cluster, visited |-> visited]
    ELSE LET node == Head(queue)
         IN  IF node \in visited
             THEN Traverse(Tail(queue), visited, cluster, cs, threshold)
             ELSE Traverse(
                    Tail(queue) \o SelectSeq(Neighbours(cs, node, threshold),
                                             LAMBDA n : n \notin visited \cup {node}),
                    visited \cup {node}, Append(cluster, node), cs, threshold)

\* the for loop that starts a traversal from every node not visited yet
RECURSIVE Clusters(_, _, _, _, _)
Clusters(i, visited, clusters, cs, threshold) ==
    IF i > Len(cs) THEN clusters
    ELSE IF i \in visited THEN Clusters(i + 1, visited, clusters, cs, threshold)
    ELSE LET t == Traverse(<<i>>, visited, <<>>, cs, threshold)
         IN  Clusters(i + 1, t.visited, Append(clusters, t.cluster), cs, threshold)

\* commonParts.join('/')
RECURSIVE Join(_)
Join(parts) ==
    IF parts = <<>> THEN ""
    ELSE IF Len(parts) = 1 THEN parts[1]
    ELSE Join(SubSeq(parts, 1, Len(parts) - 1)) \o "/" \o parts[Len(parts)]

Min(S) == CHOOSE x \in S : \A y \in S : x <= y
Max(S) == CHOOSE x \in S : \A y \in S : x >= y

\* the leading segments that every path shares, the last segment of the
\* shortest path left out
findCommonDirectory(files) ==
    IF Len(files) = 0 THEN ""
    ELSE LET minLen == Min({Len(files[i]) : i \in DOMAIN files})
             shared == {n \in 0..(minLen - 1) :
                         \A i \in 1..n : \A f \in DOMAIN files : files[f][i] = files[1][i]}
         IN  Join(SubSeq(files[1], 1, Max(shared)))

FileGroup(clusterCommits) ==
    LET allFiles == Flatten([i \in DOMAIN clusterCommits |-> FilesOf(clusterCommits[i])])
        commonDir == findCommonDirectory(allFiles)
    IN  [groupKey |-> "files-" \o (IF commonDir # "" THEN commonDir ELSE "mixed"),
         groupType |-> "file-overlap",
         groupName |-> IF commonDir # "" THEN "Changes in " \o commonDir
                       ELSE "Related file changes",
         commits |-> clusterCommits,
         jiraIssues |-> <<>>,
         labels |-> <<>>]

groupByFileOverlap(cs, overlapThreshold) ==
    IF Len(cs) < 2 THEN [groups |-> <<>>, ungrouped |-> cs]
    ELSE LET clusters == Clusters(1, {}, <<>>, cs, overlapThreshold)
             large == SelectSeq(clusters, LAMBDA c : Len(c) >= 2)
             small == SelectSeq(clusters, LAMBDA c : Len(c) < 2)
         IN  [groups |-> SortByCommitCount(
                    [k \in DOMAIN large |->
                        FileGroup([i \in DOMAIN large[k] |-> cs[large[k][i]]])]),
              ungrouped |-> [k \in DOMAIN small |-> cs[small[k][1]]]]

\* ---- input domains of the tiered pipeline ----
\* the last message names one ticket twice, in two cases
Messages == {<<>>, <<"T1">>, <<"t2", "T3">>, <<"T3">>, <<"T1", "t1">>}

AX == <<"a", "x">>
AY == <<"a", "y">>
BW == <<"b", "w">>

\* timestamp and filesChanged of a commit
Changes ==
    {[timestamp |-> 0, filesChanged |-> <<AX>>],
     [timestamp |-> 7 * DayMs, filesChanged |-> <<AX, AY>>],
     [timestamp |-> 0],
     [timestamp |-> 7 * DayMs, filesChanged |-> <<BW>>]}

MakeCommit(i, m, ch) ==
    [k \in DOMAIN ch \cup {"hash", "message"} |->
        IF k = "hash" THEN HashPool[i] ELSE IF k = "message" THEN m ELSE ch[k]]

\* commit lists with pairwise distinct hashes
CommitLists ==
    UNION {{[i \in 1..n |-> MakeCommit(i, ms[i], chs[i])] :
                ms \in [1..n -> Messages], chs \in [1..n -> Changes]} :
           n \in 0..MaxCommits}

\* longer lists, of commits that take fewer shapes
MaxCommitsCoarse == 4

CoarseMessages == {<<>>, <<"T1">>}

CoarseChanges ==
    {[timestamp |-> 0, filesChanged |-> <<AX>>],
     [timestamp |-> 7 * DayMs, filesChanged |-> <<AX, AY>>],
     [timestamp |-> 7 * DayMs, filesChanged |-> <<BW>>]}

CoarseCommitLists ==
    {[i \in 1..MaxCommitsCoarse |-> MakeCommit(i, ms[i], chs[i])] :
        ms \in [1..MaxCommitsCoarse -> CoarseMessages],
        chs \in [1..MaxCommitsCoarse -> CoarseChanges]}

EmptyTable == <<>>

JiraMixed ==
    [k \in {"T1", "T2", "T3"} |->
        CASE k = "T1" -> [key |-> "T1", sprint |-> "S1", labels |-> <<"a">>]
          [] k = "T2" -> [key |-> "T2", epicKey |-> "E1", epicName |-> "Epic one",
                          sprint |-> "S2", labels |-> <<"a", "b">>]
          [] k = "T3" -> [key |-> "T3", epicKey |-> "E2"]]

JiraSprints ==
    [k \in {"T1", "T3"} |->
        CASE k = "T1" -> [key |-> "T1", sprint |-> "S1", labels |-> <<"a">>]
          [] k = "T3" -> [key |-> "T3", sprint |-> "S2", labels |-> <<"a", "b">>]]

\* T2 resolves but carries an empty epic id; T1 and T3 are of one epic
JiraEpics ==
    [k \in {"T1", "T2", "T3"} |->
        CASE k = "T1" -> [key |-> "T1", epicKey |-> "E1", epicName |-> "Epic one",
                          sprint |-> "S1", labels |-> <<"a">>]
          [] k = "T2" -> [key |-> "T2", epicKey |-> "", sprint |-> "S2"]
          [] k = "T3" -> [key |-> "T3", epicKey |-> "E1", epicName |-> "Epic one",
                          labels |-> <<"b">>]]

JiraCaches == {EmptyTable, JiraMixed, JiraSprints, JiraEpics}

PROne == [number |-> 1, title |-> "PR one", labels |-> <<"x">>]
PRTwo == [number |-> 2, title |-> "PR two"]

PRCaches ==
    {EmptyTable,
     [h \in {"h1", "h2"} |-> PROne],
     [h \in {"h1", "h2", "h3", "h4"} |-> IF h \in {"h1", "h3"} THEN PROne ELSE PRTwo],
     [h \in {"h0", "h2"} |-> IF h = "h0" THEN PROne ELSE PRTwo]}

OptionSets == {<<>>, [timeWindowDays |-> 1, overlapThreshold |-> 60]}

\* ---- groupCommitsMultiSignal ----
\* const { timeWindowDays = 7, overlapThreshold = 0.5 } = options
TimeWindowDays(o) == IF Has(o, "timeWindowDays") THEN o.timeWindowDays ELSE 7
\* variant: the file tier always runs with the default threshold
OverlapThreshold_Fixed(o) == 50
OverlapThreshold(o) == IF Has(o, "overlapThreshold") THEN o.overlapThreshold ELSE 50

\* variant: the issues found in tier 2 are not carried to the result
FinalUngrouped_NoIssues(finalCommits, left) ==
    [i \in DOMAIN finalCommits |-> [commit |-> finalCommits[i], issues |-> <<>>]]

\* finalUngroupedCommits.map(commit => ({ commit, issues: original?.issues || [] }))
FinalUngrouped(finalCommits, left) ==
    [i \in DOMAIN finalCommits |->
        LET same == SelectSeq(left, LAMBDA u : u.commit.hash = finalCommits[i].hash)
        IN  [commit |-> finalCommits[i],
             issues |-> IF same = <<>> THEN <<>> ELSE same[1].issues]]

\* the whole call as one expression of its four arguments
groupCommitsMultiSignal(cs, cache, prs, o) ==
    LET tier1 == IF DOMAIN prs # {} THEN groupByPR(cs, prs)
                 ELSE [groups |-> <<>>, ungrouped |-> cs]
        tier2 == groupCommitsByFeature(tier1.ungrouped, cache, NoOverrides)
        tier3 == groupBySprintAndTime(tier2.ungroupedCommits, TimeWindowDays(o))
        tier4 == groupByFileOverlap(
                     [i \in DOMAIN tier3.ungrouped |-> tier3.ungrouped[i].commit],
                     OverlapThreshold(o))
    IN  [groups |-> tier1.groups \o tier2.groups \o tier3.groups \o tier4.groups,
         ungroupedCommits |-> FinalUngrouped(tier4.ungrouped, tier3.ungrouped)]

Init ==
    /\ commits \in CommitLists \cup CoarseCommitLists
    /\ jiraCache \in JiraCaches
    /\ prCache \in PRCaches
    /\ options \in OptionSets
    /\ pc = "start"
    /\ remaining = commits
    /\ allGroups = <<>>
    /\ afterEpic = <<>>
    /\ afterSprint = <<>>
    /\ result = None
    /\ sensitivity = None /\ calls = None /\ response = None /\ parsed = None
    /\ gi = None /\ filteredGroups = None /\ allUngrouped = None
    /\ filesA = None /\ filesB = None /\ jaccard = None
    /\ message = None /\ groupOverrides = None

\* where control is: the only branch of the function is if (prCache.size > 0),
\* and no statement of it or of the tier functions throws or returns early
PRTierRuns == pc = "start" /\ DOMAIN prCache # {}
PRTierSkipped == pc = "start" /\ DOMAIN prCache = {}
EpicTierRuns == pc = "epic"
SprintTierRuns == pc = "sprint"
\* variant: the file tier stops on a commit that has no filesChanged
FileTierRuns_NeedsFiles ==
    /\ pc = "files"
    /\ \A i \in DOMAIN afterSprint : Has(afterSprint[i].commit, "filesChanged")
FileTierRuns == pc = "files"

\* variant: the commits of the PR groups stay in the list of the later tiers
PRTier_KeepRemaining ==
    /\ PRTierRuns
    /\ allGroups' = allGroups \o groupByPR(remaining, prCache).groups
    /\ pc' = "epic"
    /\ UNCHANGED <<commits, jiraCache, prCache, options, remaining, afterEpic,
                   afterSprint, result>>
    /\ UNCHANGED <<aiVars, fnVars>>

\* Tier 1, taken when prCache.size > 0
PRTier ==
    /\ PRTierRuns
    /\ LET r == groupByPR(remaining, prCache)
       IN  /\ allGroups' = allGroups \o r.groups
           /\ remaining' = r.ungrouped
    /\ pc' = "epic"
    /\ UNCHANGED <<commits, jiraCache, prCache, options, afterEpic, afterSprint, result>>
    /\ UNCHANGED <<aiVars, fnVars>>

\* Tier 1 is skipped when the PR table is empty
SkipPRTier ==
    /\ PRTierSkipped
    /\ pc' = "epic"
    /\ UNCHANGED <<commits, jiraCache, prCache, options, remaining, allGroups,
                   afterEpic, afterSprint, result>>
    /\ UNCHANGED <<aiVars, fnVars>>

\* variant: tier 2 reverses the list it is given in place; when tier 1 was
\* skipped that list is the caller's array (let remaining = commits)
EpicTier_ReversesInPlace ==
    /\ EpicTierRuns
    /\ LET reversed == [i \in DOMAIN remaining |-> remaining[Len(remaining) + 1 - i]]
           r == groupCommitsByFeature(reversed, jiraCache, NoOverrides)
       IN  /\ allGroups' = allGroups \o r.groups
           /\ afterEpic' = r.ungroupedCommits
           /\ remaining' = reversed
           /\ commits' = IF DOMAIN prCache = {} THEN reversed ELSE commits
    /\ pc' = "sprint"
    /\ UNCHANGED <<jiraCache, prCache, options, afterSprint, result>>
    /\ UNCHANGED <<aiVars, fnVars>>

\* Tier 2
EpicTier ==
    /\ EpicTierRuns
    /\ LET r == groupCommitsByFeature(remaining, jiraCache, NoOverrides)
       IN  /\ allGroups' = allGroups \o r.groups
           /\ afterEpic' = r.ungroupedCommits
    /\ pc' = "sprint"
    /\ UNCHANGED <<commits, jiraCache, prCache, options, remaining, afterSprint, result>>
    /\ UNCHANGED <<aiVars, fnVars>>

\* Tier 3
SprintTier ==
    /\ SprintTierRuns
    /\ LET r == groupBySprintAndTime(afterEpic, TimeWindowDays(options))
       IN  /\ allGroups' = allGroups \o r.groups
           /\ afterSprint' = r.ungrouped
    /\ pc' = "files"
    /\ UNCHANGED <<commits, jiraCache, prCache, options, remaining, afterEpic, result>>
    /\ UNCHANGED <<aiVars, fnVars>>

\* variant: the file tier's groups come out in either order
FileTier_EitherOrder ==
    /\ FileTierRuns
    /\ \E rev \in BOOLEAN :
        LET r == groupByFileOverlap([i \in DOMAIN afterSprint |-> afterSprint[i].commit],
                                    OverlapThreshold(options))
            fileGroups == IF rev
                          THEN [i \in DOMAIN r.groups |-> r.groups[Len(r.groups) + 1 - i]]
                          ELSE r.groups
        IN  /\ allGroups' = allGroups \o fileGroups
            /\ result' = [groups |-> allGroups \o fileGroups,
                          ungroupedCommits |-> FinalUngrouped(r.ungrouped, afterSprint)]
    /\ pc' = "done"
    /\ UNCHANGED <<commits, jiraCache, prCache, options, remaining, afterEpic, afterSprint>>
    /\ UNCHANGED <<aiVars, fnVars>>

\* Tier 4 and the return
FileTier ==
    /\ FileTierRuns
    /\ LET r == groupByFileOverlap([i \in DOMAIN afterSprint |-> afterSprint[i].commit],
                                   OverlapThreshold(options))
       IN  /\ allGroups' = allGroups \o r.groups
           /\ result' = [groups |-> allGroups \o r.groups,
                         ungroupedCommits |-> FinalUngrouped(r.ungrouped, afterSprint)]
    /\ pc' = "done"
    /\ UNCHANGED <<commits, jiraCache, prCache, options, remaining, afterEpic, afterSprint>>
    /\ UNCHANGED <<aiVars, fnVars>>

Next ==
    \/ PRTier
    \/ SkipPRTier
    \/ EpicTier
    \/ SprintTier
    \/ FileTier

Spec == Init /\ [][Next]_vars

(***************************************************************************)
(* Claims about groupCommitsMultiSignal                                    *)
(***************************************************************************)
TimesInGroup(g, h) == Cardinality({j \in DOMAIN g.commits : g.commits[j].hash = h})
GroupsHolding(h) == {k \in DOMAIN result.groups : TimesInGroup(result.groups[k], h) > 0}
TimesUngrouped(h) ==
    Cardinality({j \in DOMAIN result.ungroupedCommits :
                    result.ungroupedCommits[j].commit.hash = h})

\* C1: every input commit is in exactly one place of the result: once in the
\* commits of exactly one group and not in ungroupedCommits, or in no group and
\* once in ungroupedCommits.
C1_ExactlyOnePlace ==
    pc = "done" =>
        \A i \in DOMAIN commits :
            LET h == commits[i].hash
            IN  \/ /\ Cardinality(GroupsHolding(h)) = 1
                   /\ \A k \in GroupsHolding(h) : TimesInGroup(result.groups[k], h) = 1
                   /\ TimesUngrouped(h) = 0
                \/ /\ GroupsHolding(h) = {}
                   /\ TimesUngrouped(h) = 1

\* three commits, one of them left ungrouped beside a group of the other two
C1_Witness ==
    /\ pc = "done"
    /\ Len(commits) = 3
    /\ \E k \in DOMAIN result.groups : Len(result.groups[k].commits) = 2
    /\ Len(result.ungroupedCommits) = 1

\* C2 as stated: every returned group has at least two member commits,
\* whichever tier produced it.
C2_AsStated ==
    pc = "done" =>
        \A k \in DOMAIN result.groups : Len(result.groups[k].commits) >= 2

\* C2: every returned pr, sprint and file-overlap group has at least two
\* member commits, and every returned epic group has at least one.
C2_MinimumGroupSize ==
    pc = "done" =>
        \A k \in DOMAIN result.groups :
            LET g == result.groups[k]
            IN  /\ g.groupType \in {"pr", "sprint", "file-overlap"} => Len(g.commits) >= 2
                /\ g.groupType = "epic" => Len(g.commits) >= 1

\* an epic group of one commit is returned beside a group of a tier that
\* dissolves its single-commit clusters
C2_Witness ==
    /\ pc = "done"
    /\ \E k \in DOMAIN result.groups :
        /\ result.groups[k].groupType = "epic"
        /\ Len(result.groups[k].commits) = 1
    /\ \E k \in DOMAIN result.groups :
        result.groups[k].groupType \in {"pr", "sprint", "file-overlap"}

\* the input commit at position i shares its PR with another input commit
SharesPR(i) ==
    /\ commits[i].hash \in DOMAIN prCache
    /\ \E j \in DOMAIN commits :
        /\ j # i
        /\ commits[j].hash \in DOMAIN prCache
        /\ prCache[commits[j].hash].number = prCache[commits[i].hash].number

\* the hashes the tiers after the PR tier are given
HandedOn == {remaining[j].hash : j \in DOMAIN remaining}

\* C3: with a non-empty PR table, a commit that shares its PR with another
\* input commit is not handed to the later tiers and ends in the pr group of
\* its PR and in no other group; every other commit is handed to the later
\* tiers.
C3_PRTierPriority ==
    (pc # "start" /\ DOMAIN prCache # {}) =>
        \A i \in DOMAIN commits :
            LET h == commits[i].hash
            IN  IF SharesPR(i)
                THEN /\ h \notin HandedOn
                     /\ pc = "done" =>
                           /\ GroupsHolding(h) # {}
                           /\ \A k \in GroupsHolding(h) :
                                /\ result.groups[k].groupType = "pr"
                                /\ result.groups[k].prNumber = prCache[h].number
                ELSE h \in HandedOn

\* two commits that name a ticket of one epic share a PR and are returned, and
\* a third commit, alone in its PR, went on to the later tiers
C3_Witness ==
    /\ pc = "done"
    /\ jiraCache = JiraMixed
    /\ \E i, j \in DOMAIN commits :
        /\ i # j
        /\ SharesPR(i)
        /\ SharesPR(j)
        /\ commits[i].message = <<"t2", "T3">>
        /\ commits[j].message = <<"t2", "T3">>
        /\ prCache[commits[i].hash].number = prCache[commits[j].hash].number
    /\ \E i \in DOMAIN commits :
        /\ commits[i].hash \in DOMAIN prCache
        /\ ~SharesPR(i)
        /\ commits[i].hash \in HandedOn

\* C11 as stated: no two groups of the result have the same groupKey.
C11_AsStated ==
    pc = "done" =>
        \A k, l \in DOMAIN result.groups :
            k # l => result.groups[k].groupKey # result.groups[l].groupKey

\* the tickets of the issue table that the message of c refers to
Tickets(c) == {ToUpperCase(c.message[i]) : i \in DOMAIN c.message} \cap DOMAIN jiraCache

\* c has nothing a tier could group it by: no resolved issue with an epic or a
\* sprint, and no changed files
NoSignal(c) ==
    /\ \A t \in Tickets(c) :
        ~Truthy(jiraCache[t], "epicKey") /\ ~Truthy(jiraCache[t], "sprint")
    /\ ~Has(c, "filesChanged")

\* C14: whatever data is missing, a call that has not returned yet is at a tier
\* that runs, a call that returned gave a result, and a commit that shares no PR and has no epic, sprint or files
\* is returned once in ungroupedCommits and in no group.
C14_NeverFails ==
    /\ pc # "done" =>
        PRTierRuns \/ PRTierSkipped \/ EpicTierRuns \/ SprintTierRuns \/ FileTierRuns
    /\ pc = "done" =>
        /\ DOMAIN result = {"groups", "ungroupedCommits"}
        /\ \A i \in DOMAIN commits :
            (~SharesPR(i) /\ NoSignal(commits[i])) =>
                /\ GroupsHolding(commits[i].hash) = {}
                /\ TimesUngrouped(commits[i].hash) = 1

\* with tables that cover only part of the input, a commit without files whose
\* first ticket is not in the issue table and whose hash is not in the PR table
\* is returned ungrouped
C14_Witness ==
    /\ pc = "done"
    /\ jiraCache = JiraSprints
    /\ DOMAIN prCache # {}
    /\ \E i \in DOMAIN commits :
        /\ commits[i].message = <<"t2", "T3">>
        /\ commits[i].hash \notin DOMAIN prCache
        /\ ~Has(commits[i], "filesChanged")
        /\ TimesUngrouped(commits[i].hash) = 1

\* positions of the message of c that resolve to an issue with an epic id
EpicRefs(c) ==
    {i \in DOMAIN c.message :
        /\ ToUpperCase(c.message[i]) \in DOMAIN jiraCache
        /\ Truthy(jiraCache[ToUpperCase(c.message[i])], "epicKey")}
HasEpic(c) == EpicRefs(c) # {}
\* the issue of the first such position
EpicIssue(c) == jiraCache[ToUpperCase(c.message[Min(EpicRefs(c))])]

\* the epic tier has run
AfterEpicTier == pc \in {"sprint", "files", "done"}

EpicGroupsOf(key) ==
    {k \in DOMAIN allGroups :
        allGroups[k].groupType = "epic" /\ allGroups[k].groupKey = key}

\* C15: of the commits given to the epic tier, one whose message has a ticket
\* that resolves to an issue with a non-empty epic id is in the one epic group
\* whose groupKey is the epic id of the first such ticket; that group is named
\* by the epic name, or by the epic id when the issue has no name, and holds
\* exactly the commits assigned that epic; a commit with no such ticket is in
\* no epic group and is handed to the sprint tier.
C15_EpicOfFirstTicket ==
    AfterEpicTier =>
        \A j \in DOMAIN remaining :
            LET c == remaining[j]
            IN  IF HasEpic(c)
                THEN LET issue == EpicIssue(c)
                     IN  /\ Cardinality(EpicGroupsOf(issue.epicKey)) = 1
                         /\ \A k \in EpicGroupsOf(issue.epicKey) :
                              /\ allGroups[k].groupName =
                                    IF Truthy(issue, "epicName") THEN issue.epicName
                                    ELSE issue.epicKey
                              /\ {allGroups[k].commits[m].hash : m \in DOMAIN allGroups[k].commits}
                                    = {remaining[l].hash : l \in
                                        {x \in DOMAIN remaining :
                                            /\ HasEpic(remaining[x])
                                            /\ EpicIssue(remaining[x]).epicKey = issue.epicKey}}
                              /\ Len(allGroups[k].commits) =
                                    Cardinality({x \in DOMAIN remaining :
                                            /\ HasEpic(remaining[x])
                                            /\ EpicIssue(remaining[x]).epicKey = issue.epicKey})
                ELSE /\ \A k \in DOMAIN allGroups :
                            allGroups[k].groupType = "epic" =>
                                \A m \in DOMAIN allGroups[k].commits :
                                    allGroups[k].commits[m].hash # c.hash
                     /\ \E l \in DOMAIN afterEpic : afterEpic[l].commit.hash = c.hash

\* a commit whose first ticket resolves without an epic id and whose second
\* ticket is of epic E1 shares the group E1 with a commit of another ticket,
\* and a commit without tickets went on
C15_Witness ==
    /\ AfterEpicTier
    /\ jiraCache = JiraEpics
    /\ \E k \in EpicGroupsOf("E1") :
        /\ \E m \in DOMAIN allGroups[k].commits : allGroups[k].commits[m].message = <<"t2", "T3">>
        /\ \E m \in DOMAIN allGroups[k].commits : allGroups[k].commits[m].message = <<"T1">>
    /\ \E l \in DOMAIN afterEpic : afterEpic[l].commit.message = <<>>

\* the issues that the ticket references of c resolve to, in message order
Resolved(c) ==
    LET refs == SelectSeq(c.message, LAMBDA m : ToUpperCase(m) \in DOMAIN jiraCache)
    IN  [i \in DOMAIN refs |-> jiraCache[ToUpperCase(refs[i])]]

\* C16: every entry of ungroupedCommits holds an input commit, unchanged, and
\* exactly the issues that the commit's ticket references resolve to in the
\* issue table, the empty list when none resolves.
C16_UngroupedKeepIssues ==
    pc = "done" =>
        \A j \in DOMAIN result.ungroupedCommits :
            LET u == result.ungroupedCommits[j]
            IN  /\ \E i \in DOMAIN commits : commits[i] = u.commit
                /\ u.issues = Resolved(u.commit)

\* a commit with a sprint issue went through the sprint tier and, beside a
\* file-overlap group, through the file tier, and is returned with its issue;
\* another is returned with no issue
C16_Witness ==
    /\ pc = "done"
    /\ \E k \in DOMAIN result.groups : result.groups[k].groupType = "file-overlap"
    /\ \E j \in DOMAIN result.ungroupedCommits :
        /\ result.ungroupedCommits[j].issues # <<>>
        /\ Truthy(result.ungroupedCommits[j].issues[1], "sprint")
    /\ \E j \in DOMAIN result.ungroupedCommits : result.ungroupedCommits[j].issues = <<>>

(***************************************************************************)
(* calculateFileOverlap called on its own                                  *)
(***************************************************************************)
MaxFiles == 3

\* lists of paths, repeats allowed
FileLists == SeqsOf({AX, AY, BW}, 0, MaxFiles)

InitOverlap ==
    /\ filesA \in FileLists
    /\ filesB \in FileLists
    /\ jaccard = None
    /\ message = None /\ groupOverrides = None
    /\ pc = "start"
    /\ commits = None /\ result = None
    /\ jiraCache = None /\ prCache = None /\ options = None
    /\ remaining = None /\ allGroups = None /\ afterEpic = None /\ afterSprint = None
    /\ sensitivity = None /\ calls = None /\ response = None /\ parsed = None
    /\ gi = None /\ filteredGroups = None /\ allUngrouped = None

ApplyOverlap ==
    /\ pc = "start"
    /\ jaccard' = calculateFileOverlap(filesA, filesB)
    /\ pc' = "done"
    /\ UNCHANGED <<commits, result, filesA, filesB, message, groupOverrides, pipeVars, aiVars>>

NextOverlap == ApplyOverlap

SpecOverlap == InitOverlap /\ [][NextOverlap]_vars

\* C17: the value is a fraction in [0, 1]; it is 0 when either list is empty;
\* otherwise it equals |A n B| / |A u B| over the sets of distinct paths; the
\* call with the arguments exchanged gives the same value; it is 1 when both
\* lists hold the same non-empty set of paths.
C17_Jaccard ==
    pc = "done" =>
        LET A == Range(filesA)
            B == Range(filesB)
            swapped == calculateFileOverlap(filesB, filesA)
        IN  /\ jaccard.den > 0
            /\ 0 <= jaccard.num /\ jaccard.num <= jaccard.den
            /\ (filesA = <<>> \/ filesB = <<>>) => jaccard.num = 0
            /\ (filesA # <<>> /\ filesB # <<>>) =>
                    jaccard.num * Cardinality(A \cup B) = Cardinality(A \cap B) * jaccard.den
            /\ swapped.num * jaccard.den = jaccard.num * swapped.den
            /\ (A = B /\ A # {}) => jaccard.num = jaccard.den

\* lists that repeat a path and share some paths but not all
C17_Witness ==
    /\ pc = "done"
    /\ Len(filesA) > Cardinality(Range(filesA))
    /\ 0 < jaccard.num
    /\ jaccard.num < jaccard.den

C19_InputsUnchanged ==
    [][commits' = commits /\ jiraCache' = jiraCache /\ prCache' = prCache]_vars

\* a call that ended with a group whose members are not in the order of the
\* input list, tier 1 having been skipped (the tiers worked on the caller's array)
C19_Witness ==
    /\ pc = "done"
    /\ DOMAIN prCache = {}
    /\ \E g \in DOMAIN result.groups :
        \E i, j \in DOMAIN result.groups[g].commits :
            \E a, b \in DOMAIN commits :
                /\ i < j /\ b < a
                /\ commits[a] = result.groups[g].commits[i]
                /\ commits[b] = result.groups[g].commits[j]
                /\ commits[a].hash # commits[b].hash

(***************************************************************************)
(* extractJiraKeys called on its own                                       *)
(***************************************************************************)
MaxWords == 4

\* messages as lists of words: ticket references in either case, other words
MessageWords == SeqsOf({"fix", "T1", "t1", "T2", "t2"}, 0, MaxWords)

InitKeys ==
    /\ message \in MessageWords
    /\ result = None
    /\ pc = "start"
    /\ commits = None
    /\ jiraCache = None /\ prCache = None /\ options = None
    /\ remaining = None /\ allGroups = None /\ afterEpic = None /\ afterSprint = None
    /\ sensitivity = None /\ calls = None /\ response = None /\ parsed = None
    /\ gi = None /\ filteredGroups = None /\ allUngrouped = None
    /\ filesA = None /\ filesB = None /\ jaccard = None /\ groupOverrides = None

ApplyKeys ==
    /\ pc = "start"
    /\ result' = extractJiraKeys(message)
    /\ pc' = "done"
    /\ UNCHANGED <<commits, pipeVars, aiVars, fnVars>>

NextKeys == ApplyKeys

SpecKeys == InitKeys /\ [][NextKeys]_vars

\* positions of the message whose word is a reference to ticket k in any case
RefsTo(k) == {j \in DOMAIN message : MatchesKeyRegex(message[j]) /\ ToUpperCase(message[j]) = k}

\* C21: the returned ids are uppercase, each is the id of a reference of the
\* message and every reference's id is returned; no id is returned twice;
\* ids are in the order of their first reference; a message without a
\* reference gives the empty list; extractTicketKeys returns the same list.
C21_ExtractKeys ==
    pc = "done" =>
        /\ \A i \in DOMAIN result : ToUpperCase(result[i]) = result[i] /\ RefsTo(result[i]) # {}
        /\ \A j \in DOMAIN message :
            MatchesKeyRegex(message[j]) =>
                \E i \in DOMAIN result : result[i] = ToUpperCase(message[j])
        /\ \A i, j \in DOMAIN result : i # j => result[i] # result[j]
        /\ \A i, j \in DOMAIN result :
            i < j => Min(RefsTo(result[i])) < Min(RefsTo(result[j]))
        /\ (\A j \in DOMAIN message : ~MatchesKeyRegex(message[j])) => result = <<>>
        /\ extractTicketKeys(message) = result

\* a message that names one ticket in both cases, after another ticket
C21_Witness ==
    /\ pc = "done"
    /\ Len(result) = 2
    /\ \E i, j \in DOMAIN message :
        /\ i # j /\ message[i] # message[j]
        /\ MatchesKeyRegex(message[i]) /\ MatchesKeyRegex(message[j])
        /\ ToUpperCase(message[i]) = ToUpperCase(message[j])
        /\ Min(RefsTo(result[2])) < i /\ Min(RefsTo(result[2])) < j

(***************************************************************************)
(* groupByFileOverlap called on its own                                    *)
(***************************************************************************)
MaxFileCommits == 4

\* filesChanged of a commit: absent, empty, or some of three paths
FileChanges ==
    {[timestamp |-> 0],
     [timestamp |-> 0, filesChanged |-> <<>>],
     [timestamp |-> 0, filesChanged |-> <<AX>>],
     [timestamp |-> 0, filesChanged |-> <<AX, AY>>],
     [timestamp |-> 0, filesChanged |-> <<AY, BW>>],
     [timestamp |-> 0, filesChanged |-> <<BW>>]}

FileCommitLists ==
    UNION {{[i \in 1..n |-> MakeCommit(i, <<>>, chs[i])] : chs \in [1..n -> FileChanges]} :
           n \in 0..MaxFileCommits}

\* overlapThreshold left out (0.5), or 0.01, 0.3, 0.6, 1
ThresholdOptions == {<<>>} \cup {[overlapThreshold |-> t] : t \in {1, 30, 60, 100}}

InitFiles ==
    /\ commits \in FileCommitLists
    /\ options \in ThresholdOptions
    /\ result = None
    /\ pc = "start"
    /\ jiraCache = None /\ prCache = None
    /\ remaining = None /\ allGroups = None /\ afterEpic = None /\ afterSprint = None
    /\ sensitivity = None /\ calls = None /\ response = None /\ parsed = None
    /\ gi = None /\ filteredGroups = None /\ allUngrouped = None
    /\ filesA = None /\ filesB = None /\ jaccard = None
    /\ message = None /\ groupOverrides = None

ApplyFiles ==
    /\ pc = "start"
    /\ result' = groupByFileOverlap(commits, OverlapThreshold(options))
    /\ pc' = "done"
    /\ UNCHANGED <<commits, pipeVars, aiVars, fnVars>>

NextFiles == ApplyFiles

SpecFiles == InitFiles /\ [][NextFiles]_vars

\* the edge of the graph: two distinct commits whose overlap reaches the threshold
Linked(i, j) ==
    /\ i # j
    /\ OverlapReaches(calculateFileOverlap(FilesOf(commits[i]), FilesOf(commits[j])),
                      OverlapThreshold(options))

\* the commits that a chain of edges joins to a commit of S
RECURSIVE ChainedTo(_)
ChainedTo(S) ==
    LET next == S \cup {j \in DOMAIN commits : \E i \in S : Linked(i, j)}
    IN  IF next = S THEN S ELSE ChainedTo(next)

Component(i) == ChainedTo({i})

\* positions of the groups that list commit i, and how often ungrouped lists it
FileGroupsOf(i) ==
    {g \in DOMAIN result.groups :
        \E k \in DOMAIN result.groups[g].commits : result.groups[g].commits[k] = commits[i]}
TimesLeft(i) == Cardinality({k \in DOMAIN result.ungrouped : result.ungrouped[k] = commits[i]})

MaxSprintCommits == 3

\* T1 is of sprint S1, T3 of sprint S2, T2 has no sprint
SprintTable ==
    [k \in {"T1", "T2", "T3"} |->
        CASE k = "T1" -> [key |-> "T1", sprint |-> "S1", labels |-> <<"a">>]
          [] k = "T2" -> [key |-> "T2", labels |-> <<"b">>]
          [] k = "T3" -> [key |-> "T3", sprint |-> "S2"]]

SprintMessages == {<<>>, <<"T1">>, <<"T3">>, <<"T2", "T1">>}

\* timestamps a day apart, and one millisecond more than a day apart
SprintTimes == {0, DayMs, 2 * DayMs, 2 * DayMs + 1}

\* the pairs (commit, issues) as groupCommitsByFeature hands them on
SprintItemLists ==
    UNION {{[i \in 1..n |->
                LET c == MakeCommit(i, ms[i], [timestamp |-> ts[i]])
                IN  [commit |-> c, issues |-> CommitIssues(c, SprintTable)]] :
                ms \in [1..n -> SprintMessages], ts \in [1..n -> SprintTimes]} :
           n \in 0..MaxSprintCommits}

\* longer lists, of items of at most one sprint
MaxSprintRun == 4

LongSprintItemLists ==
    {[i \in 1..MaxSprintRun |->
        LET c == MakeCommit(i, ms[i], [timestamp |-> ts[i]])
        IN  [commit |-> c, issues |-> CommitIssues(c, SprintTable)]] :
        ms \in [1..MaxSprintRun -> {<<>>, <<"T1">>}], ts \in [1..MaxSprintRun -> SprintTimes]}

\* timeWindowDays left out (7), or 1
WindowOptions == {<<>>, [timeWindowDays |-> 1]}

InitSprint ==
    /\ afterEpic \in SprintItemLists \cup LongSprintItemLists
    /\ options \in WindowOptions
    /\ result = None
    /\ pc = "start"
    /\ commits = None
    /\ jiraCache = None /\ prCache = None
    /\ remaining = None /\ allGroups = None /\ afterSprint = None
    /\ sensitivity = None /\ calls = None /\ response = None /\ parsed = None
    /\ gi = None /\ filteredGroups = None /\ allUngrouped = None
    /\ filesA = None /\ filesB = None /\ jaccard = None
    /\ message = None /\ groupOverrides = None

ApplySprint ==
    /\ pc = "start"
    /\ result' = groupBySprintAndTime(afterEpic, TimeWindowDays(options))
    /\ pc' = "done"
    /\ UNCHANGED <<commits, pipeVars, aiVars, fnVars>>

NextSprint == ApplySprint

SpecSprint == InitSprint /\ [][NextSprint]_vars

\* the sprint label of the first issue of item i, "" when there is none
FirstSprint(i) ==
    LET issues == afterEpic[i].issues
    IN  IF issues = <<>> THEN ""
        ELSE IF Has(issues[1], "sprint") THEN issues[1].sprint ELSE ""

TimeOf(i) == afterEpic[i].commit.timestamp

WindowMs == TimeWindowDays(options) * DayMs

\* the items of the sprint bucket of item i
BucketOf(i) == {j \in DOMAIN afterEpic : FirstSprint(j) = FirstSprint(i)}

\* i and j are of one bucket and no two neighbouring timestamps of the bucket
\* between theirs are more than the window apart
SameRun(i, j) ==
    /\ FirstSprint(i) # ""
    /\ j \in BucketOf(i)
    /\ LET lo == IF TimeOf(i) <= TimeOf(j) THEN TimeOf(i) ELSE TimeOf(j)
           hi == IF TimeOf(i) <= TimeOf(j) THEN TimeOf(j) ELSE TimeOf(i)
           between == {TimeOf(k) : k \in {k \in BucketOf(i) : lo <= TimeOf(k) /\ TimeOf(k) <= hi}}
       IN  \A t1, t2 \in between :
            (t1 < t2 /\ ~\E t \in between : t1 < t /\ t < t2) => t2 - t1 <= WindowMs

RunOf(i) == {j \in DOMAIN afterEpic : SameRun(i, j)}

SprintGroupsOf(i) ==
    {g \in DOMAIN result.groups :
        \E k \in DOMAIN result.groups[g].commits :
            result.groups[g].commits[k] = afterEpic[i].commit}

TimesLeftBySprint(i) ==
    Cardinality({k \in DOMAIN result.ungrouped : result.ungrouped[k] = afterEpic[i]})

\* C23: an item without issue, or whose first issue has no sprint, is
\* returned ungrouped; an item alone in its run is returned ungrouped; the
\* items of a run of 2 or more are the members of one group of type sprint
\* that carries their sprint, each listed once; a gap equal to the window
\* does not split a run and a larger one does.
C23_SprintRuns ==
    pc = "done" =>
        /\ \A i \in DOMAIN afterEpic :
            /\ Cardinality(SprintGroupsOf(i)) + TimesLeftBySprint(i) = 1
            /\ (TimesLeftBySprint(i) = 1) <=>
                    (FirstSprint(i) = "" \/ Cardinality(RunOf(i)) < 2)
            /\ \A g \in SprintGroupsOf(i) :
                /\ result.groups[g].groupType = "sprint"
                /\ result.groups[g].sprint = FirstSprint(i)
                /\ {result.groups[g].commits[k].hash : k \in DOMAIN result.groups[g].commits}
                        = {afterEpic[j].commit.hash : j \in RunOf(i)}
                /\ Len(result.groups[g].commits) = Cardinality(RunOf(i))
        /\ \A g \in DOMAIN result.groups :
            \E i \in DOMAIN afterEpic : g \in SprintGroupsOf(i)
        /\ \A i, j \in DOMAIN afterEpic :
            (i # j /\ FirstSprint(i) # "" /\ FirstSprint(i) = FirstSprint(j)) =>
                /\ (TimeOf(j) - TimeOf(i) \in 0..WindowMs) =>
                        SprintGroupsOf(i) # {} /\ SprintGroupsOf(i) = SprintGroupsOf(j)
                /\ (\A k \in BucketOf(i) \ {i} :
                        TimeOf(k) - TimeOf(i) > WindowMs \/ TimeOf(i) - TimeOf(k) > WindowMs)
                        => TimesLeftBySprint(i) = 1

\* a group with two members exactly one window apart, and an item of the
\* same sprint one millisecond too late, left ungrouped
C23_Witness ==
    /\ pc = "done"
    /\ \E i, j, k \in DOMAIN afterEpic :
        /\ FirstSprint(i) # "" /\ j \in BucketOf(i) /\ k \in BucketOf(i)
        /\ TimeOf(j) - TimeOf(i) = WindowMs
        /\ SprintGroupsOf(i) # {} /\ SprintGroupsOf(i) = SprintGroupsOf(j)
        /\ TimeOf(k) - TimeOf(i) > WindowMs
        /\ TimesLeftBySprint(k) = 1

\* the tiers in the order they run
TierRank(type) ==
    CASE type = "pr" -> 1
      [] type = "epic" -> 2
      [] type = "sprint" -> 3
      [] type = "file-overlap" -> 4

MemberHashes(g) == {g.commits[k].hash : k \in DOMAIN g.commits}

\* the first position of a list of hashes that holds a member of g
FirstMember(g, hashes) == Min({i \in DOMAIN hashes : hashes[i] \in MemberHashes(g)})

\* when the tier of g came upon it: the position, in the list the tier was
\* given, of its earliest member; a sprint group by the position of the first
\* item of its sprint, then by the time of its earliest member
Discovered(g) ==
    CASE g.groupType = "pr" -> <<FirstMember(g, AllHashes(commits)), 0>>
      [] g.groupType = "epic" -> <<FirstMember(g, AllHashes(remaining)), 0>>
      [] g.groupType = "sprint" ->
            <<Min({i \in DOMAIN afterEpic : SprintOf(afterEpic[i]) = g.sprint}),
              Min({g.commits[k].timestamp : k \in DOMAIN g.commits})>>
      [] g.groupType = "file-overlap" ->
            <<FirstMember(g, [i \in DOMAIN afterSprint |-> afterSprint[i].commit.hash]), 0>>

Earlier(a, b) == a[1] < b[1] \/ (a[1] = b[1] /\ a[2] < b[2])

\* C24: in the returned list the pr groups precede the epic groups, these
\* the sprint groups, these the file-overlap groups; within a type a group
\* never has fewer members than a later one, and of two groups with equally
\* many members the one its tier came upon first is listed first.
C24_GroupOrder ==
    pc = "done" =>
        \A g, h \in DOMAIN result.groups :
            g < h =>
                LET a == result.groups[g]
                    b == result.groups[h]
                IN  /\ TierRank(a.groupType) <= TierRank(b.groupType)
                    /\ a.groupType = b.groupType =>
                        /\ Len(a.commits) >= Len(b.commits)
                        /\ Len(a.commits) = Len(b.commits) =>
                                Earlier(Discovered(a), Discovered(b))

\* two groups of one type with equally many members, two or more each
C24_Witness ==
    /\ pc = "done"
    /\ \E g, h \in DOMAIN result.groups :
        /\ g < h
        /\ result.groups[g].groupType = result.groups[h].groupType
        /\ Len(result.groups[g].commits) = Len(result.groups[h].commits)
        /\ Len(result.groups[g].commits) >= 2

\* a larger group listed before a smaller one that its tier came upon first
SortReorders ==
    /\ pc = "done"
    /\ \E g, h \in DOMAIN result.groups :
        /\ g < h
        /\ result.groups[g].groupType = result.groups[h].groupType
        /\ Len(result.groups[g].commits) > Len(result.groups[h].commits)
        /\ Earlier(Discovered(result.groups[h]), Discovered(result.groups[g]))

(***************************************************************************)
(* groupCommitsByFeature called on its own, with groupOverrides            *)
(***************************************************************************)
MaxFeatureCommits == 3

FeatureCommitLists ==
    UNION {{[i \in 1..n |-> MakeCommit(i, ms[i], [timestamp |-> 0])] :
                ms \in [1..n -> Messages]} :
           n \in 0..MaxFeatureCommits}

\* the value of a hash in groupOverrides: null, the epic of a ticket, a key
\* of no ticket, the empty string
OverrideValues == {<<>>, [key |-> "E1"], [key |-> "E9"], [key |-> ""]}

OverrideMaps ==
    UNION {[hs -> OverrideValues] : hs \in SUBSET {HashPool[i] : i \in 1..MaxFeatureCommits}}

InitFeature ==
    /\ commits \in FeatureCommitLists
    /\ jiraCache \in {EmptyTable, JiraMixed, JiraEpics}
    /\ groupOverrides \in OverrideMaps
    /\ result = None
    /\ pc = "start"
    /\ prCache = None /\ options = None
    /\ remaining = None /\ allGroups = None /\ afterEpic = None /\ afterSprint = None
    /\ sensitivity = None /\ calls = None /\ response = None /\ parsed = None
    /\ gi = None /\ filteredGroups = None /\ allUngrouped = None
    /\ filesA = None /\ filesB = None /\ jaccard = None /\ message = None

ApplyFeature ==
    /\ pc = "start"
    /\ result' = groupCommitsByFeature(commits, jiraCache, groupOverrides)
    /\ pc' = "done"
    /\ UNCHANGED <<commits, pipeVars, aiVars, fnVars>>

NextFeature == ApplyFeature

SpecFeature == InitFeature /\ [][NextFeature]_vars

Overridden(i) == commits[i].hash \in DOMAIN groupOverrides
ToNull(i) == Overridden(i) /\ ~Has(groupOverrides[commits[i].hash], "key")
ToKey(i) == Overridden(i) /\ Has(groupOverrides[commits[i].hash], "key")
KeyOf(i) == groupOverrides[commits[i].hash].key

\* the issues of the batch whose epic is K
IssuesOfEpic(K) ==
    {issue \in UNION {Range(CommitIssues(commits[i], jiraCache)) : i \in DOMAIN commits} :
        Has(issue, "epicKey") /\ issue.epicKey = K}

FeatureGroupsOf(i) ==
    {g \in DOMAIN result.groups :
        \E k \in DOMAIN result.groups[g].commits : result.groups[g].commits[k] = commits[i]}

\* commit i is returned ungrouped with its resolved issues, and in no group
LeftWithIssues(i) ==
    /\ FeatureGroupsOf(i) = {}
    /\ \E k \in DOMAIN result.ungroupedCommits :
        result.ungroupedCommits[k] =
            [commit |-> commits[i], issues |-> CommitIssues(commits[i], jiraCache)]

\* commit i is a member of the group of key K, named after epic K when a
\* ticket of the batch is of that epic
PlacedUnder(i, K) ==
    \E g \in FeatureGroupsOf(i) :
        /\ result.groups[g].groupKey = K
        /\ IssuesOfEpic(K) # {} =>
            \E issue \in IssuesOfEpic(K) : result.groups[g].groupName = EpicNameOf(issue)

OverridesHonoured ==
    pc = "done" =>
        \A i \in DOMAIN commits :
            /\ ToNull(i) => LeftWithIssues(i)
            /\ (ToKey(i) /\ KeyOf(i) # "") => PlacedUnder(i, KeyOf(i))
            /\ (ToKey(i) /\ KeyOf(i) = "") => LeftWithIssues(i)

LabelsDeduplicated ==
    pc = "done" =>
        \A g \in DOMAIN result.groups :
            /\ \A i, j \in DOMAIN result.groups[g].labels :
                i # j => result.groups[g].labels[i] # result.groups[g].labels[j]
            /\ (result.groups[g].groupType # "epic"
                \/ Len(extractJiraKeys(result.groups[g].commits[1].message))
                        = Len(result.groups[g].commits[1].message)) =>
                \A i, j \in DOMAIN result.groups[g].jiraIssues :
                    i # j => result.groups[g].jiraIssues[i].key
                                # result.groups[g].jiraIssues[j].key

\* the position of a commit in the input list
InputPosition(c) == Min({i \in DOMAIN commits : commits[i].hash = c.hash})

PRMembersInInputOrder ==
    pc = "done" =>
        \A g \in DOMAIN result.groups :
            result.groups[g].groupType = "pr" =>
                \A i, j \in DOMAIN result.groups[g].commits :
                    i < j => InputPosition(result.groups[g].commits[i])
                                < InputPosition(result.groups[g].commits[j])

\* a group of the given type whose members are not in input order
OutOfInputOrder(type) ==
    /\ pc = "done"
    /\ \E g \in DOMAIN result.groups :
        /\ result.groups[g].groupType = type
        /\ \E i, j \in DOMAIN result.groups[g].commits :
            /\ i < j
            /\ InputPosition(result.groups[g].commits[i])
                    > InputPosition(result.groups[g].commits[j])

SprintOutOfInputOrder == OutOfInputOrder("sprint")
EpicOutOfInputOrder == OutOfInputOrder("epic")
FilesOutOfInputOrder == OutOfInputOrder("file-overlap")

NoTables == jiraCache = EmptyTable /\ prCache = EmptyTable

\* the threshold the caller asked for, in hundredths
AskedThreshold == IF "overlapThreshold" \in DOMAIN options THEN options.overlapThreshold ELSE 50

\* C28: with an empty PR table and an empty issue table the first three
\* tiers add no group and hand every commit on, in input order and without
\* issues; the groups returned are those of groupByFileOverlap on the whole
\* input with the caller's threshold, and ungroupedCommits are its ungrouped
\* commits, each with an empty issue list.
C28_FileTierOnly ==
    NoTables =>
        /\ pc = "files" =>
            /\ allGroups = <<>>
            /\ afterSprint = [i \in DOMAIN commits |-> [commit |-> commits[i], issues |-> <<>>]]
        /\ pc = "done" =>
            LET r == groupByFileOverlap(commits, AskedThreshold)
            IN  /\ result.groups = r.groups
                /\ result.ungroupedCommits =
                        [i \in DOMAIN r.ungrouped |-> [commit |-> r.ungrouped[i], issues |-> <<>>]]
                /\ \A g \in DOMAIN result.groups : result.groups[g].groupType = "file-overlap"

\* empty tables, a message that names a ticket, a threshold other than the
\* default, a file-overlap group and a commit left ungrouped
C28_Witness ==
    /\ pc = "done"
    /\ NoTables
    /\ AskedThreshold # 50
    /\ \E i \in DOMAIN commits : commits[i].message # <<>>
    /\ Len(result.groups) >= 1
    /\ Len(result.ungroupedCommits) >= 1

====
